---- MODULE Spec2Model ----
(***************************************************************************)
(* A model of the `ca` calculator: tokenizer, precedence-climbing parser,  *)
(* normalize/simplify rewriting pipeline, result display and the REPL      *)
(* session with its variable store.                                        *)
(***************************************************************************)
EXTENDS Integers, Sequences, FiniteSets, TLC

VARIABLES
    pc,        \* position of the modelled computation
    line,      \* the input being entered: characters or tokens
    ast,       \* result of parse, or the Expr handed to normalize
    canon,     \* result of normalize
    result,    \* result of simplify (first evaluate)
    again,     \* result of evaluate applied to `result`
    vars,      \* Scope.vars: the variable store
    out,       \* what input() reported for the current line
    nlines,    \* lines processed so far in the session
    operands,  \* the operand sequence of an associative chain
    joiner,    \* the operator that joins `operands`
    contexts   \* the live Contexts on one Scope, innermost last

vars_all == <<pc, line, ast, canon, result, again, vars, out, nlines, operands, joiner, contexts>>

(***************************************************************************)
(* Exact rationals (num::BigRational): lowest terms, positive denominator. *)
(***************************************************************************)
Abs(n) == IF n < 0 THEN -n ELSE n

RECURSIVE gcd(_, _)
gcd(a, b) == IF b = 0 THEN a ELSE gcd(b, a % b)

\* BigRational::new for a non-zero denominator (a zero one panics; callers
\* that can pass zero test for it first and report the panic).
Ratio_new(n, d) ==
    LET g == gcd(Abs(n), Abs(d))
        s == IF d < 0 THEN -1 ELSE 1
    IN  [numer |-> s * (n \div g), denom |-> s * (d \div g)]

from_integer(n) == [numer |-> n, denom |-> 1]
zero == from_integer(0)
one == from_integer(1)
neg == from_integer(-1)

is_zero(r) == r.numer = 0
is_integer(r) == r.denom = 1
ratio_add(a, b) == Ratio_new(a.numer * b.denom + b.numer * a.denom, a.denom * b.denom)
ratio_mul(a, b) == Ratio_new(a.numer * b.numer, a.denom * b.denom)

RECURSIVE pow(_, _)
pow(base, exp) == IF exp = 0 THEN 1 ELSE base * pow(base, exp - 1)

(***************************************************************************)
(* Expr and Op (parser.rs).                                                *)
(***************************************************************************)
Op == {"Add", "Subtract", "Multiply", "Adjacent", "Divide", "Modulus", "Exponent", "Equals"}

Number(r) == [kind |-> "Number", value |-> r]
Name(s) == [kind |-> "Name", name |-> s]
Boolean(flag) == [kind |-> "Boolean", flag |-> flag]
Tuple(v) == [kind |-> "Tuple", elems |-> v]
Assign(l, r) == [kind |-> "Assign", target |-> l, source |-> r]
BinaryExpr(l, op, r) == [kind |-> "BinaryExpr", lhs |-> l, op |-> op, rhs |-> r]

\* A panic unwinding out of the evaluator (not an Expr).
Panic == [kind |-> "Panic"]

IsNumber(e) == e.kind = "Number"
IsBinary(e, op) == e.kind = "BinaryExpr" /\ e.op = op

(***************************************************************************)
(* evaluator.rs: normalize                                                 *)
(***************************************************************************)
\* apply_associative with the rotation applied once instead of down the chain.
apply_associative_once(op, lhs, rhs) ==
    IF IsBinary(lhs, op)
    THEN <<lhs.lhs, BinaryExpr(lhs.rhs, op, rhs)>>
    ELSE <<lhs, rhs>>

RECURSIVE apply_associative(_, _, _)
apply_associative(op, lhs, rhs) ==
    IF IsBinary(lhs, op)
    THEN LET inner == apply_associative(op, lhs.rhs, rhs)
         IN  <<lhs.lhs, BinaryExpr(inner[1], op, inner[2])>>
    ELSE <<lhs, rhs>>

RECURSIVE normalize(_)
normalize(expr) ==
    IF expr.kind = "BinaryExpr"
    THEN LET lhs0 == normalize(expr.lhs)
             rhs0 == normalize(expr.rhs)
             op1 == IF expr.op = "Adjacent" THEN "Multiply" ELSE expr.op
             op2 == IF op1 = "Subtract" THEN "Add"
                    ELSE IF op1 = "Divide" THEN "Multiply" ELSE op1
             rhs1 == IF op1 = "Subtract"
                     THEN BinaryExpr(Number(neg), "Multiply", rhs0)
                     ELSE IF op1 = "Divide"
                     THEN BinaryExpr(rhs0, "Exponent", Number(neg))
                     ELSE rhs0
             pair == IF op2 = "Multiply" \/ op2 = "Add"
                     THEN apply_associative(op2, lhs0, rhs1)
                     ELSE <<lhs0, rhs1>>
         IN  BinaryExpr(pair[1], op2, pair[2])
    ELSE expr

(***************************************************************************)
(* evaluator.rs: simplify                                                  *)
(***************************************************************************)
\* Numbers in the model stay far inside isize/i32, so the to_usize, to_i32
\* and to_isize conversions fail only on a negative value (to_usize).
real_power(a, b) ==
    IF ~is_integer(b) THEN [some |-> FALSE]
    ELSE IF b.numer = -1
    THEN IF a.numer = 0 THEN [some |-> TRUE, panic |-> TRUE]
         ELSE [some |-> TRUE, panic |-> FALSE, n |-> Ratio_new(a.denom, a.numer)]
    ELSE IF is_integer(a) /\ Abs(a.numer) = 1
    THEN [some |-> TRUE, panic |-> FALSE, n |-> a]
    ELSE IF a.denom = 1 /\ b.numer >= 0
    THEN [some |-> TRUE, panic |-> FALSE, n |-> Ratio_new(pow(a.numer, b.numer), 1)]
    ELSE LET p == b.numer
             n == a.numer
             d == b.denom
         IN  IF p = 0 THEN [some |-> TRUE, panic |-> FALSE, n |-> one]
             ELSE IF p > 0
             THEN [some |-> TRUE, panic |-> FALSE,
                   n |-> Ratio_new(pow(Ratio_new(n, d).numer, p), pow(Ratio_new(n, d).denom, p))]
             ELSE IF n = 0 THEN [some |-> TRUE, panic |-> TRUE]
             ELSE [some |-> TRUE, panic |-> FALSE,
                   n |-> Ratio_new(pow(Ratio_new(n, d).denom, -p), pow(Ratio_new(n, d).numer, -p))]

\* The `while let BinaryExpr(lhs, op, rhs) = current` loop of both chain
\* simplifiers: the operands along the right spine.
RECURSIVE chain_items(_, _)
chain_items(current, op) ==
    IF IsBinary(current, op)
    THEN <<current.lhs>> \o chain_items(current.rhs, op)
    ELSE <<current>>

\* The `while let Some(next_result) = replacement.pop()` loop.
RECURSIVE fold_chain(_, _)
fold_chain(replacement, op) ==
    IF Len(replacement) = 1 THEN replacement[1]
    ELSE BinaryExpr(replacement[1], op, fold_chain(Tail(replacement), op))

HasPanic(items) == \E i \in 1..Len(items) : items[i] = Panic

\* simplify_add, lines 193-202: merge equal items into the earliest one.
RECURSIVE add_merge_j(_, _, _, _)
add_merge_j(items, coefficients, i, j) ==
    IF j > Len(items) THEN coefficients
    ELSE IF items[i] = items[j]
    THEN add_merge_j(items,
                     [coefficients EXCEPT ![i] = ratio_add(coefficients[i], coefficients[j]),
                                          ![j] = zero],
                     i, j + 1)
    ELSE add_merge_j(items, coefficients, i, j + 1)

RECURSIVE add_merge(_, _, _)
add_merge(items, coefficients, i) ==
    IF i > Len(items) THEN coefficients
    ELSE IF ~is_zero(coefficients[i])
    THEN add_merge(items, add_merge_j(items, coefficients, i, i + 1), i + 1)
    ELSE add_merge(items, coefficients, i + 1)

\* simplify_add, lines 207-217: the numeric sum.
RECURSIVE add_sum(_, _, _)
add_sum(items, coefficients, i) ==
    IF i > Len(items) THEN zero
    ELSE IF IsNumber(items[i])
    THEN ratio_add(ratio_mul(coefficients[i], items[i].value), add_sum(items, coefficients, i + 1))
    ELSE add_sum(items, coefficients, i + 1)

\* simplify_add, lines 207-217: the surviving non-numeric addends.
RECURSIVE add_replacement(_, _, _)
add_replacement(items, coefficients, i) ==
    IF i > Len(items) THEN <<>>
    ELSE LET rest == add_replacement(items, coefficients, i + 1)
         IN  IF IsNumber(items[i]) THEN rest
             ELSE IF coefficients[i] = one THEN <<items[i]>> \o rest
             ELSE IF coefficients[i] # zero
             THEN <<BinaryExpr(Number(coefficients[i]), "Multiply", items[i])>> \o rest
             ELSE rest

\* simplify_multiply, lines 276-286: merge terms with equal base.
RECURSIVE mul_merge_j(_, _, _)
mul_merge_j(terms, i, j) ==
    IF j > Len(terms) THEN terms
    ELSE IF terms[i].base = terms[j].base
    THEN mul_merge_j([terms EXCEPT ![i] = [coeff |-> ratio_mul(terms[i].coeff, terms[j].coeff),
                                           base |-> terms[i].base,
                                           power |-> ratio_add(terms[i].power, terms[j].power)],
                                   ![j] = [coeff |-> zero,
                                           base |-> terms[j].base,
                                           power |-> terms[j].power]],
                     i, j + 1)
    ELSE mul_merge_j(terms, i, j + 1)

RECURSIVE mul_merge(_, _)
mul_merge(terms, i) ==
    IF i > Len(terms) THEN terms
    ELSE IF ~is_zero(terms[i].coeff)
    THEN mul_merge(mul_merge_j(terms, i, i + 1), i + 1)
    ELSE mul_merge(terms, i + 1)

\* simplify_multiply, lines 260-274: the running scalar coefficient.
RECURSIVE mul_coeff(_, _)
mul_coeff(bases, i) ==
    IF i > Len(bases) THEN one
    ELSE IF IsNumber(bases[i])
    THEN ratio_mul(bases[i].value, mul_coeff(bases, i + 1))
    ELSE mul_coeff(bases, i + 1)

\* simplify_multiply, lines 254-274: one Term per simplified factor.
mul_term(b) ==
    IF IsNumber(b) THEN [coeff |-> zero, base |-> b, power |-> one]
    ELSE IF IsBinary(b, "Exponent") /\ IsNumber(b.rhs)
    THEN [coeff |-> one, base |-> b.lhs, power |-> b.rhs.value]
    ELSE [coeff |-> one, base |-> b, power |-> one]

\* simplify_multiply, lines 288-307: the surviving factors.
RECURSIVE mul_replacement(_, _)
mul_replacement(terms, i) ==
    IF i > Len(terms) THEN <<>>
    ELSE LET term == terms[i]
             rest == mul_replacement(terms, i + 1)
             e == IF term.power # one
                  THEN BinaryExpr(term.base, "Exponent", Number(term.power))
                  ELSE term.base
         IN  IF is_zero(term.power) THEN rest
             ELSE IF term.coeff = one THEN <<e>> \o rest
             ELSE IF ~is_zero(term.coeff)
             THEN <<BinaryExpr(Number(term.coeff), "Multiply", e)>> \o rest
             ELSE rest

RECURSIVE simplify(_)

simplify_add(expr) ==
    LET raw == chain_items(expr, "Add")
        simplified == [i \in 1..Len(raw) |-> simplify(raw[i])]
        strip(i) == IsBinary(simplified[i], "Multiply") /\ IsNumber(simplified[i].lhs)
        items == [i \in 1..Len(raw) |-> IF strip(i) THEN simplified[i].rhs ELSE simplified[i]]
        initial == [i \in 1..Len(raw) |-> IF strip(i) THEN simplified[i].lhs.value ELSE one]
        coefficients == add_merge(items, initial, 1)
        sum == add_sum(items, coefficients, 1)
        kept == add_replacement(items, coefficients, 1)
        replacement == IF sum # zero THEN <<Number(sum)>> \o kept ELSE kept
    IN  IF HasPanic(simplified) THEN Panic
        ELSE IF replacement = <<>> THEN Number(zero)
        ELSE fold_chain(replacement, "Add")

simplify_multiply(expr) ==
    LET raw == chain_items(expr, "Multiply")
        bases == [i \in 1..Len(raw) |-> simplify(raw[i])]
        coeff == mul_coeff(bases, 1)
        terms == mul_merge([i \in 1..Len(raw) |-> mul_term(bases[i])], 1)
        kept == mul_replacement(terms, 1)
        replacement == IF coeff # one THEN <<Number(coeff)>> \o kept ELSE kept
    IN  IF HasPanic(bases) THEN Panic
        ELSE IF coeff = zero THEN Number(coeff)
        ELSE IF replacement = <<>> THEN Number(one)
        ELSE fold_chain(replacement, "Multiply")

simplify_inner(expr) ==
    IF IsBinary(expr, "Add") THEN simplify_add(expr)
    ELSE IF IsBinary(expr, "Multiply") THEN simplify_multiply(expr)
    ELSE IF IsBinary(expr, "Exponent")
    THEN LET a == simplify(expr.lhs)
             b == simplify(expr.rhs)
             folded == real_power(a.value, b.value)
         IN  IF a = Panic \/ b = Panic THEN Panic
             ELSE IF IsNumber(a) /\ IsNumber(b) /\ folded.some
             THEN IF folded.panic THEN Panic ELSE Number(folded.n)
             ELSE BinaryExpr(a, "Exponent", b)
    ELSE expr

simplify(expr) == simplify_inner(expr)

\* evaluate(expression, context): the context is not consulted.
evaluate(expression) == simplify(normalize(expression))

(***************************************************************************)
(* tokenizer.rs.  A String is a sequence of characters; a character is a   *)
(* one-character string, or the code point name for a non-ASCII one.       *)
(* char::is_numeric is taken on the ASCII digits and char::is_alphabetic   *)
(* on a few letters.                                                       *)
(***************************************************************************)
Digits == <<"0", "1", "2", "3", "4", "5", "6", "7", "8", "9">>
Numeric == {Digits[i] : i \in 1..10}
Alphabetic == {"a", "b", "c", "x", "y", "z"}
MINUS_SIGN == "U+2212"
BULLET == "U+2219"
DIVISION_SIGN == "U+00F7"
DIVISION_SLASH == "U+2215"
COLON_EQUALS == "U+2254"
ELLIPSIS == "U+22EF"

digit_value(ch) == (CHOOSE i \in 1..10 : Digits[i] = ch) - 1

Token(t) == [t |-> t]
Token_Number(r) == [t |-> "Number", value |-> r]
Token_Name(s) == [t |-> "Name", name |-> s]

Ok(v) == [ok |-> TRUE, value |-> v]
Err(e) == [ok |-> FALSE, error |-> e]

\* consume_while(it, x): the index after the longest run of characters
\* satisfying x (given as the set of accepted characters) that starts at i.
RECURSIVE consume_while(_, _, _)
consume_while(src, i, accepted) ==
    IF i <= Len(src) /\ src[i] \in accepted
    THEN consume_while(src, i + 1, accepted)
    ELSE i

\* parse_number, lines 105-111: the digits kept, in order.
RECURSIVE number_digits(_)
number_digits(chars) ==
    IF chars = <<>> THEN <<>>
    ELSE IF Head(chars) \in Numeric
    THEN <<Head(chars)>> \o number_digits(Tail(chars))
    ELSE number_digits(Tail(chars))

\* parse_number, lines 105-111: the value `separator` ends with; -1 is None.
RECURSIVE number_separator(_, _, _)
number_separator(chars, ndigits, separator) ==
    IF chars = <<>> THEN separator
    ELSE IF Head(chars) = "."
    THEN number_separator(Tail(chars), ndigits, ndigits)
    ELSE IF Head(chars) \in Numeric
    THEN number_separator(Tail(chars), ndigits + 1, separator)
    ELSE number_separator(Tail(chars), ndigits, separator)

\* digits.parse::<BigInt>() on a non-empty run of decimal digits.
RECURSIVE digits_value(_, _)
digits_value(digits, acc) ==
    IF digits = <<>> THEN acc
    ELSE digits_value(Tail(digits), 10 * acc + digit_value(Head(digits)))

parse_number(chars) ==
    LET digits == number_digits(chars)
        separator == number_separator(chars, 0, -1)
        scale == IF separator >= 0 THEN Len(digits) - separator ELSE 0
        denom == pow(10, scale)
    IN  IF digits # <<>>
        THEN Ok(Ratio_new(digits_value(digits, 0), denom))
        ELSE Err("Failed to parse number")

single_tokens ==
    [c \in {"+", "-", MINUS_SIGN, "*", BULLET, "/", DIVISION_SIGN, DIVISION_SLASH,
            "%", "^", "=", COLON_EQUALS, ",", "(", ")"} |->
        CASE c = "+" -> "Add"
          [] c \in {"-", MINUS_SIGN} -> "Subtract"
          [] c \in {"*", BULLET} -> "Multiply"
          [] c \in {"/", DIVISION_SIGN, DIVISION_SLASH} -> "Divide"
          [] c = "%" -> "Modulus"
          [] c = "^" -> "Exponent"
          [] c = "=" -> "Equals"
          [] c = COLON_EQUALS -> "Assign"
          [] c = "," -> "Comma"
          [] c = "(" -> "LeftParen"
          [] c = ")" -> "RightParen"]

RECURSIVE tokenize_loop(_, _, _)
tokenize_loop(src, i, tokens) ==
    IF i > Len(src) THEN Ok(tokens)
    ELSE LET ch == src[i] IN
        IF ch \in Numeric \cup {"."}
        THEN LET j == consume_while(src, i, Numeric \cup {"_", "."})
                 num == parse_number(SubSeq(src, i, j - 1))
             IN  IF num.ok
                 THEN tokenize_loop(src, j, Append(tokens, Token_Number(num.value)))
                 ELSE num
        ELSE IF ch = ":"
        THEN IF i + 1 <= Len(src) /\ src[i + 1] = "="
             THEN tokenize_loop(src, i + 2, Append(tokens, Token("Assign")))
             ELSE Err("Expected = after :")
        ELSE IF ch \in DOMAIN single_tokens
        THEN tokenize_loop(src, i + 1, Append(tokens, Token(single_tokens[ch])))
        ELSE IF ch \in {"\n", "\t", " "}
        THEN tokenize_loop(src, i + 1, tokens)
        ELSE IF ch \in Alphabetic
        THEN LET j == consume_while(src, i, Alphabetic)
             IN  tokenize_loop(src, j, Append(tokens, Token_Name(SubSeq(src, i, j - 1))))
        ELSE Err("Invalid char")

tokenize(src) == tokenize_loop(src, 1, <<>>)

(***************************************************************************)
(* parser.rs: the parser.  The Peekable iterator is the index of the next  *)
(* token; a successful sub-parse returns the expression and that index.    *)
(***************************************************************************)
UNARY_PRIORITY == 8

Parsed(e, pos) == [ok |-> TRUE, expr |-> e, pos |-> pos]

\* get_precedence: <<left, right>>, or <<>> for None.
get_precedence(token) ==
    CASE token.t = "Equals" -> <<3, 3>>
      [] token.t \in {"Add", "Subtract"} -> <<6, 6>>
      [] token.t \in {"Multiply", "Divide", "Modulus"} -> <<7, 7>>
      [] token.t = "Exponent" -> <<10, 9>>
      [] OTHER -> <<>>

RECURSIVE parse_expr(_, _, _)
RECURSIVE parse_expr_loop(_, _, _, _)
RECURSIVE parse_prefix(_, _)
RECURSIVE parse_group(_, _, _)
RECURSIVE parse_infix(_, _, _, _)

parse_expr(tokens, pos, precedence) ==
    LET prefix == parse_prefix(tokens, pos)
    IN  IF prefix.ok
        THEN parse_expr_loop(tokens, prefix.expr, prefix.pos, precedence)
        ELSE prefix

\* The `while let Some(&next_token) = it.peek()` loop of parse_expr.
parse_expr_loop(tokens, expr, pos, precedence) ==
    IF pos > Len(tokens) THEN Parsed(expr, pos)
    ELSE LET next_token == tokens[pos]
             prec == get_precedence(next_token)
         IN  IF next_token.t = "RightParen" THEN Parsed(expr, pos)
             ELSE IF next_token.t \in {"Name", "Number", "LeftParen"}
             THEN LET right == parse_expr(tokens, pos, 0)
                  IN  IF right.ok
                      THEN parse_expr_loop(tokens,
                                           BinaryExpr(expr, "Adjacent", right.expr),
                                           right.pos, precedence)
                      ELSE right
             ELSE IF prec = <<>> THEN Parsed(expr, pos)
             ELSE IF precedence >= prec[1] THEN Parsed(expr, pos)
             ELSE LET infix == parse_infix(tokens, expr, pos, prec[2])
                  IN  IF infix.ok
                      THEN parse_expr_loop(tokens, infix.expr, infix.pos, precedence)
                      ELSE infix

parse_prefix(tokens, pos) ==
    IF pos > Len(tokens) THEN Err("Unterminated expression")
    ELSE LET t == tokens[pos] IN
        IF t.t = "Number" THEN Parsed(Number(t.value), pos + 1)
        ELSE IF t.t = "Name" THEN Parsed(Name(t.name), pos + 1)
        ELSE IF t.t = "Subtract"
        THEN LET operand == parse_expr(tokens, pos + 1, UNARY_PRIORITY)
             IN  IF operand.ok
                 THEN Parsed(BinaryExpr(Number(zero), "Subtract", operand.expr), operand.pos)
                 ELSE operand
        ELSE IF t.t = "LeftParen"
        THEN IF pos + 1 <= Len(tokens) /\ tokens[pos + 1].t = "RightParen"
             THEN Parsed(Tuple(<<>>), pos + 2)
             ELSE parse_group(tokens, <<>>, pos + 1)
        ELSE Err("Unexpected token")

\* The `loop` of parse_prefix that collects the elements of a group.
parse_group(tokens, exprs, pos) ==
    LET element == parse_expr(tokens, pos, 0)
        collected == Append(exprs, element.expr)
    IN  IF ~element.ok THEN element
        ELSE IF element.pos <= Len(tokens) /\ tokens[element.pos].t = "RightParen"
        THEN IF Len(collected) = 1
             THEN Parsed(collected[1], element.pos + 1)
             ELSE Parsed(Tuple(collected), element.pos + 1)
        ELSE IF element.pos <= Len(tokens) /\ tokens[element.pos].t = "Comma"
        THEN parse_group(tokens, collected, element.pos + 1)
        ELSE Err("Missing right parenthesis")

infix_ops ==
    [t \in {"Add", "Subtract", "Multiply", "Divide", "Modulus", "Exponent", "Equals"} |-> t]

parse_infix(tokens, left, pos, precedence) ==
    IF pos > Len(tokens) THEN Err("No more tokens")
    ELSE IF tokens[pos].t \notin DOMAIN infix_ops THEN Err("Unexpected token")
    ELSE LET right == parse_expr(tokens, pos + 1, precedence)
         IN  IF right.ok
             THEN Parsed(BinaryExpr(left, infix_ops[tokens[pos].t], right.expr), right.pos)
             ELSE right

\* parse(tokens).  `pos` of a success is the index after the last token the
\* parser took from the iterator.
parse(tokens) ==
    IF tokens = <<>> THEN Parsed(Tuple(<<>>), 1)
    ELSE LET lhs == parse_expr(tokens, 1, 0)
         IN  IF ~lhs.ok THEN lhs
             ELSE IF lhs.pos <= Len(tokens)
             THEN IF tokens[lhs.pos].t = "Assign"
                  THEN LET rhs == parse_expr(tokens, lhs.pos + 1, 0)
                       IN  IF rhs.ok
                           THEN Parsed(Assign(lhs.expr, rhs.expr), rhs.pos)
                           ELSE rhs
                  ELSE Err("Unexpected token")
             ELSE Parsed(lhs.expr, lhs.pos)

(***************************************************************************)
(* parser.rs: Display for Expr and Op.  The output is a String.            *)
(***************************************************************************)
PRECISION == 5

op_prec(op) ==
    CASE op = "Add" -> 2
      [] op = "Subtract" -> 1
      [] op = "Multiply" -> 4
      [] op = "Adjacent" -> 4
      [] op = "Divide" -> 3
      [] op = "Modulus" -> 4
      [] op = "Exponent" -> 5
      [] op = "Equals" -> 6

\* Display for Op.
op_symbol(op) ==
    CASE op = "Add" -> "+"
      [] op = "Subtract" -> MINUS_SIGN
      [] op = "Multiply" -> BULLET
      [] op = "Adjacent" -> BULLET
      [] op = "Divide" -> DIVISION_SIGN
      [] op = "Modulus" -> "%"
      [] op = "Exponent" -> "^"
      [] op = "Equals" -> "="

\* needs_paren(e, p); p is an Op, or "None".
needs_paren(e, p) ==
    IF p = "None" THEN FALSE
    ELSE IF e.kind = "Number" THEN e.value.numer < 0 /\ p = "Adjacent"
    ELSE IF e.kind = "BinaryExpr" THEN op_prec(e.op) < op_prec(p)
    ELSE FALSE

\* Display of a non-negative integer (write!(f, "{}", n)).
RECURSIVE uint_string(_)
uint_string(n) ==
    IF n < 10 THEN <<Digits[n + 1]>>
    ELSE Append(uint_string(n \div 10), Digits[(n % 10) + 1])

int_string(n) == IF n < 0 THEN <<"-">> \o uint_string(-n) ELSE uint_string(n)

\* The `for _ in 0..precision` loop of fmt_ratio_decimal: the digits written
\* and the remainder left, from remainder `rem` with `left` rounds to go.
RECURSIVE decimal_digits(_, _, _)
decimal_digits(rem, den, left) ==
    IF left = 0 \/ rem = 0 THEN [text |-> <<>>, rem |-> rem]
    ELSE LET rest == decimal_digits((10 * rem) % den, den, left - 1)
         IN  [text |-> uint_string((10 * rem) \div den) \o rest.text, rem |-> rest.rem]

\* fmt_ratio_decimal writing the "." only after a non-zero integer part.
fmt_ratio_decimal_point(r, precision) ==
    LET whole == Abs(r.numer) \div r.denom
        rem == Abs(r.numer) % r.denom
        frac == decimal_digits(rem, r.denom, precision)
    IN  (IF r.numer < 0 THEN <<"-">> ELSE <<>>)
        \o uint_string(whole)
        \o (IF whole # 0 THEN <<".">> ELSE <<>>)
        \o frac.text
        \o (IF frac.rem # 0 THEN <<ELLIPSIS>> ELSE <<>>)

fmt_ratio_decimal(r, precision) ==
    LET whole == Abs(r.numer) \div r.denom
        rem == Abs(r.numer) % r.denom
        frac == decimal_digits(rem, r.denom, precision)
    IN  (IF r.numer < 0 THEN <<"-">> ELSE <<>>)
        \o uint_string(whole)
        \o (IF rem # 0 THEN <<".">> ELSE <<>>)
        \o frac.text
        \o (IF frac.rem # 0 THEN <<ELLIPSIS>> ELSE <<>>)

\* Display for BigRational, which `{:#}` selects for a Number.
ratio_string(r) ==
    IF r.denom = 1 THEN int_string(r.numer)
    ELSE int_string(r.numer) \o <<"/">> \o int_string(r.denom)

RECURSIVE display_expr_parent(_, _, _)
RECURSIVE display_rest(_, _, _)

\* The `for e in it` loop of the Tuple arm, from element i on.
display_rest(v, i, alternate) ==
    IF i > Len(v) THEN <<>>
    ELSE <<",">> \o display_expr_parent(v[i], "None", alternate) \o display_rest(v, i + 1, alternate)

display_expr_parent(e, p, alternate) ==
    LET body ==
            CASE e.kind = "Number" ->
                    IF alternate THEN ratio_string(e.value)
                    ELSE fmt_ratio_decimal(e.value, PRECISION)
              [] e.kind = "Name" -> e.name
              [] e.kind = "Boolean" -> IF e.flag THEN <<"t", "r", "u", "e">>
                                       ELSE <<"f", "a", "l", "s", "e">>
              [] e.kind = "Tuple" ->
                    <<"(">>
                    \o (IF Len(e.elems) >= 1
                        THEN display_expr_parent(e.elems[1], "None", alternate)
                             \o (IF Len(e.elems) = 1 THEN <<",">> ELSE <<>>)
                        ELSE <<>>)
                    \o display_rest(e.elems, 2, alternate)
                    \o <<")">>
              [] e.kind = "BinaryExpr" /\ e.op = "Adjacent" ->
                    <<"(">> \o display_expr_parent(e.lhs, "None", alternate) \o <<" ">>
                    \o display_expr_parent(e.rhs, "None", alternate) \o <<")">>
              [] e.kind = "Assign" ->
                    <<"(">> \o display_expr_parent(e.target, "None", alternate)
                    \o <<" ", COLON_EQUALS, " ">>
                    \o display_expr_parent(e.source, "None", alternate) \o <<")">>
              [] e.kind = "BinaryExpr" /\ e.op # "Adjacent" ->
                    display_expr_parent(e.lhs, e.op, alternate)
                    \o <<" ", op_symbol(e.op), " ">>
                    \o display_expr_parent(e.rhs, e.op, alternate)
    IN  IF needs_paren(e, p) THEN <<"(">> \o body \o <<")">> ELSE body

\* impl fmt::Display for Expr.
display(e, alternate) == display_expr_parent(e, "None", alternate)

(***************************************************************************)
(* The pipeline on one token line: parse, normalize, simplify, and         *)
(* evaluate once more on the result.                                       *)
(***************************************************************************)
MaxTokens == 5

NoValue == [kind |-> "None"]
NoStore == [n \in {} |-> NoValue]

half == Ratio_new(1, 2)
two == from_integer(2)

EvalTokens ==
    {Token_Number(one), Token_Number(two), Token_Number(half), Token_Name(<<"x">>),
     Token("Add"), Token("Subtract"), Token("Exponent")}

InitTokens ==
    /\ pc = "typing"
    /\ line = <<>>
    /\ ast = NoValue
    /\ canon = NoValue
    /\ result = NoValue
    /\ again = NoValue
    /\ vars = NoStore
    /\ out = NoValue
    /\ nlines = 0
    /\ operands = <<>>
    /\ joiner = "None"
    /\ contexts = <<>>

TypeToken(t, bound) ==
    /\ pc = "typing"
    /\ Len(line) < bound
    /\ line' = Append(line, t)
    /\ UNCHANGED <<pc, ast, canon, result, again, vars, out, nlines, operands, joiner, contexts>>

TypeEvalToken == \E t \in EvalTokens : TypeToken(t, MaxTokens)

Parse ==
    /\ pc = "typing"
    /\ ast' = parse(line)
    /\ pc' = IF ast'.ok THEN "parsed" ELSE "rejected"
    /\ UNCHANGED <<line, canon, result, again, vars, out, nlines, operands, joiner, contexts>>

Normalize ==
    /\ pc = "parsed"
    /\ canon' = normalize(ast.expr)
    /\ pc' = "normalized"
    /\ UNCHANGED <<line, ast, result, again, vars, out, nlines, operands, joiner, contexts>>

Simplify ==
    /\ pc = "normalized"
    /\ result' = simplify(canon)
    /\ pc' = IF result' = Panic THEN "aborted" ELSE "simplified"
    /\ UNCHANGED <<line, ast, canon, again, vars, out, nlines, operands, joiner, contexts>>

Reevaluate ==
    /\ pc = "simplified"
    /\ again' = evaluate(result)
    /\ pc' = IF again' = Panic THEN "aborted" ELSE "reevaluated"
    /\ UNCHANGED <<line, ast, canon, result, vars, out, nlines, operands, joiner, contexts>>

NextEvaluate == TypeEvalToken \/ Parse \/ Normalize \/ Simplify \/ Reevaluate

SpecEvaluate == InitTokens /\ [][NextEvaluate]_vars_all

(***************************************************************************)
(* The parser alone, on token lines with groups and assignment.            *)
(***************************************************************************)
MaxParseTokens == 4

ParseTokens ==
    {Token_Number(one), Token_Name(<<"x">>), Token("LeftParen"), Token("RightParen"),
     Token("Comma"), Token("Add"), Token("Subtract"), Token("Exponent"), Token("Assign")}

TypeParseToken == \E t \in ParseTokens : TypeToken(t, MaxParseTokens)

NextParse == TypeParseToken \/ Parse

SpecParse == InitTokens /\ [][NextParse]_vars_all

(***************************************************************************)
(* context.rs and main.rs: the store and the REPL session.                 *)
(***************************************************************************)
MaxChars == 3
MaxLines == 2

\* Context::insert that starts from an empty map instead of scope.vars.
insert_only(store, name, value) ==
    [n \in {name} |-> value]

\* Context::insert on scope.vars.
insert(store, name, value) ==
    [n \in DOMAIN store \cup {name} |-> IF n = name THEN value ELSE store[n]]

\* What one call of input() leaves behind: the store, and what it printed
\* (an error line, nothing, or the result line) or that it panicked.
Reported(store, report) == [vars |-> store, out |-> report]

\* print!("{}", expression), the fraction of a non-integer Number, println!.
result_line(expression, align) ==
    (IF align THEN <<" ", " ">> ELSE <<>>)
    \o display(expression, FALSE)
    \o (IF IsNumber(expression) /\ ~is_integer(expression.value)
        THEN <<" ", " ", "(">> \o display(expression, TRUE) \o <<")">>
        ELSE <<>>)
    \o <<"\n">>

input(src, store, align) ==
    LET tokens == tokenize(src)
        expression == parse(tokens.value)
        value == evaluate(expression.expr)
    IN  IF ~tokens.ok
        THEN Reported(store, [kind |-> "error", msg |-> tokens.error])
        ELSE IF ~expression.ok
        THEN Reported(store, [kind |-> "error", msg |-> expression.error])
        ELSE IF expression.expr.kind = "Assign"
        THEN IF expression.expr.target.kind = "Name"
             THEN Reported(insert(store, expression.expr.target.name, expression.expr.source),
                           [kind |-> "silent"])
             ELSE Reported(store, [kind |-> "error", msg |-> "Cannot assign to"])
        ELSE IF value = Panic
        THEN Reported(store, [kind |-> "panic"])
        ELSE Reported(store, [kind |-> "value", expr |-> value,
                              text |-> result_line(value, align)])

SessionChars == {"0", "1", "5", "x", "y", "+", "/", "%", COLON_EQUALS, "#"}

InitSession ==
    /\ pc = "reading"
    /\ line = <<>>
    /\ ast = NoValue
    /\ canon = NoValue
    /\ result = NoValue
    /\ again = NoValue
    /\ vars = NoStore
    /\ out = NoValue
    /\ nlines = 0
    /\ operands = <<>>
    /\ joiner = "None"
    /\ contexts = <<>>

\* rl.readline("% "): the user enters one more character of the line.
TypeChar ==
    /\ pc = "reading"
    /\ Len(line) < MaxChars
    /\ \E c \in SessionChars : line' = Append(line, c)
    /\ UNCHANGED <<pc, ast, canon, result, again, vars, out, nlines, operands, joiner, contexts>>

\* Ok(line) => input(&line, &mut scope, true)
Enter ==
    /\ pc = "reading"
    /\ LET done == input(line, vars, TRUE)
       IN  /\ vars' = done.vars
           /\ out' = done.out
           /\ pc' = IF done.out.kind = "panic" THEN "aborted" ELSE "printed"
    /\ nlines' = nlines + 1
    /\ UNCHANGED <<line, ast, canon, result, again, operands, joiner, contexts>>

\* The next iteration of the loop in main.
Prompt ==
    /\ pc = "printed"
    /\ nlines < MaxLines
    /\ pc' = "reading"
    /\ line' = <<>>
    /\ out' = NoValue
    /\ UNCHANGED <<ast, canon, result, again, vars, nlines, operands, joiner, contexts>>

\* Err(ReadlineError::Interrupted) | Err(ReadlineError::Eof) => break
Eof ==
    /\ pc = "reading"
    /\ line = <<>>
    /\ pc' = "exited"
    /\ UNCHANGED <<line, ast, canon, result, again, vars, out, nlines, operands, joiner, contexts>>

NextSession == TypeChar \/ Enter \/ Prompt \/ Eof

SpecSession == InitSession /\ [][NextSession]_vars_all

(***************************************************************************)
(* The session on lines of assignments: names, a number, `:=` and a        *)
(* character the tokenizer rejects.                                        *)
(***************************************************************************)
MaxStoreChars == 3
MaxStoreLines == 2

StoreChars == {"1", "x", "y", COLON_EQUALS, "#"}

TypeStoreChar ==
    /\ pc = "reading"
    /\ Len(line) < MaxStoreChars
    /\ \E c \in StoreChars : line' = Append(line, c)
    /\ UNCHANGED <<pc, ast, canon, result, again, vars, out, nlines, operands, joiner, contexts>>

\* The next iteration of the loop in main.
NextLine ==
    /\ pc = "printed"
    /\ nlines < MaxStoreLines
    /\ pc' = "reading"
    /\ line' = <<>>
    /\ out' = NoValue
    /\ UNCHANGED <<ast, canon, result, again, vars, nlines, operands, joiner, contexts>>

NextStore == TypeStoreChar \/ Enter \/ NextLine \/ Eof

SpecStore == InitSession /\ [][NextStore]_vars_all

(***************************************************************************)
(* context.rs: Contexts nested by Context::evaluate on one Scope.  The     *)
(* scope field of every Context refers to that Scope, whose map is `vars`. *)
(* A Context made by evaluate borrows its parent mutably, so only the      *)
(* innermost live Context can be called.                                   *)
(***************************************************************************)
MaxDepth == 3

Some(v) == [some |-> TRUE, value |-> v]
None == [some |-> FALSE]

Context(evaluating) == [evaluating |-> evaluating]

Context_new == Context({})

get(self, name) ==
    IF name \in self.evaluating THEN None
    ELSE IF name \in DOMAIN vars THEN Some(vars[name])
    ELSE None

\* Context::evaluate marking the name in self as well as in the Context it
\* returns: one in-progress set for the whole store.
Context_evaluate_shared(self, name) ==
    [self |-> Context(self.evaluating \cup {name}),
     child |-> Context(self.evaluating \cup {name})]

\* Context::evaluate takes `&'b mut self`: self after the call, and the
\* Context returned.
Context_evaluate(self, name) ==
    [self |-> self,
     child |-> Context(self.evaluating \cup {name})]

\* A live Context and the name evaluate was called with to make it (the
\* empty string for the one made by Context::new).
Live(context, name) == [context |-> context, name |-> name]

innermost == contexts[Len(contexts)]

ContextNames == {<<"x">>, <<"y">>}
ContextValues == {Name(<<"x">>), Name(<<"y">>), Number(one)}

\* let mut scope = Scope::new(); Context::new(scope)
InitContext ==
    /\ pc = "resolving"
    /\ line = <<>>
    /\ ast = NoValue
    /\ canon = NoValue
    /\ result = NoValue
    /\ again = NoValue
    /\ vars = NoStore
    /\ out = NoValue
    /\ nlines = 0
    /\ operands = <<>>
    /\ joiner = "None"
    /\ contexts = <<Live(Context_new, <<>>)>>

\* context.insert(name, value)
CallInsert ==
    /\ \E name \in ContextNames, value \in ContextValues :
           vars' = insert(vars, name, value)
    /\ out' = NoValue
    /\ UNCHANGED <<pc, line, ast, canon, result, again, nlines, operands, joiner, contexts>>

\* context.get(&name)
CallGet ==
    /\ \E name \in ContextNames :
           out' = [kind |-> "get", depth |-> Len(contexts), name |-> name,
                   found |-> get(innermost.context, name)]
    /\ UNCHANGED <<pc, line, ast, canon, result, again, vars, nlines, operands, joiner, contexts>>

\* let child = context.evaluate(name)
CallEvaluate ==
    /\ Len(contexts) < MaxDepth
    /\ \E name \in ContextNames :
           LET made == Context_evaluate(innermost.context, name)
           IN  contexts' = Append([contexts EXCEPT ![Len(contexts)].context = made.self],
                                  Live(made.child, name))
    /\ out' = NoValue
    /\ UNCHANGED <<pc, line, ast, canon, result, again, vars, nlines, operands, joiner>>

\* The innermost Context goes out of scope; what it returned is kept.
Drop ==
    /\ Len(contexts) > 1
    /\ contexts' = SubSeq(contexts, 1, Len(contexts) - 1)
    /\ UNCHANGED <<pc, line, ast, canon, result, again, vars, out, nlines, operands, joiner>>

NextContext == CallInsert \/ CallGet \/ CallEvaluate \/ Drop

SpecContext == InitContext /\ [][NextContext]_vars_all

(***************************************************************************)
(* normalize on expression trees: operands joined by one operator, in any  *)
(* parenthesization.                                                       *)
(***************************************************************************)
MaxOperands == 3

a_name == Name(<<"a">>)
b_name == Name(<<"b">>)

OperandSet ==
    {a_name, Number(two), Boolean(TRUE),
     BinaryExpr(a_name, "Subtract", b_name),
     BinaryExpr(a_name, "Divide", b_name),
     BinaryExpr(a_name, "Adjacent", b_name),
     BinaryExpr(a_name, "Add", b_name),
     BinaryExpr(a_name, "Multiply", b_name),
     Tuple(<<BinaryExpr(a_name, "Subtract", b_name), b_name>>),
     Assign(a_name, BinaryExpr(a_name, "Adjacent", b_name))}

\* Every binary tree over the sequence `seq`, in order, with `op` at each
\* inner node.
RECURSIVE Parenthesizations(_, _)
Parenthesizations(op, seq) ==
    IF Len(seq) = 1 THEN {seq[1]}
    ELSE UNION {{BinaryExpr(l, op, r) :
                    l \in Parenthesizations(op, SubSeq(seq, 1, k)),
                    r \in Parenthesizations(op, SubSeq(seq, k + 1, Len(seq)))} :
                k \in 1..(Len(seq) - 1)}

InitTrees ==
    /\ pc = "operands"
    /\ line = <<>>
    /\ ast = NoValue
    /\ canon = NoValue
    /\ result = NoValue
    /\ again = NoValue
    /\ vars = NoStore
    /\ out = NoValue
    /\ nlines = 0
    /\ operands = <<>>
    /\ joiner = "None"
    /\ contexts = <<>>

AddOperand ==
    /\ pc = "operands"
    /\ Len(operands) < MaxOperands
    /\ \E e \in OperandSet : operands' = Append(operands, e)
    /\ UNCHANGED <<pc, line, ast, canon, result, again, vars, out, nlines, joiner, contexts>>

\* The Expr a parse of the operands joined by `op` and grouped by
\* parentheses would hand to the evaluator.
Join ==
    /\ pc = "operands"
    /\ operands # <<>>
    /\ \E op \in Op : \E tree \in Parenthesizations(op, operands) :
          /\ joiner' = op
          /\ ast' = tree
    /\ pc' = "built"
    /\ UNCHANGED <<line, canon, result, again, vars, out, nlines, operands, contexts>>

NormalizeTree ==
    /\ pc = "built"
    /\ canon' = normalize(ast)
    /\ pc' = "normalized"
    /\ UNCHANGED <<line, ast, result, again, vars, out, nlines, operands, joiner, contexts>>

NextNormalize == AddOperand \/ Join \/ NormalizeTree

SpecNormalize == InitTrees /\ [][NextNormalize]_vars_all

(***************************************************************************)
(* simplify on products: factors joined by Multiply as the parser joins    *)
(* `f1 * f2 * f3`, normalized and simplified.                              *)
(***************************************************************************)
MaxFactors == 3

FactorSet ==
    {Number(two), Number(half), a_name,
     BinaryExpr(Number(two), "Exponent", Number(half)),
     BinaryExpr(a_name, "Exponent", Number(two))}

\* The tree of `e1 op e2 op e3` for a left-associative operator.
RECURSIVE left_nested(_, _)
left_nested(op, seq) ==
    IF Len(seq) = 1 THEN seq[1]
    ELSE BinaryExpr(left_nested(op, SubSeq(seq, 1, Len(seq) - 1)), op, seq[Len(seq)])

AddFactor ==
    /\ pc = "operands"
    /\ Len(operands) < MaxFactors
    /\ \E e \in FactorSet : operands' = Append(operands, e)
    /\ UNCHANGED <<pc, line, ast, canon, result, again, vars, out, nlines, joiner, contexts>>

NormalizeProduct ==
    /\ pc = "operands"
    /\ Len(operands) >= 2
    /\ joiner' = "Multiply"
    /\ ast' = left_nested("Multiply", operands)
    /\ canon' = normalize(ast')
    /\ pc' = "normalized"
    /\ UNCHANGED <<line, result, again, vars, out, nlines, operands, contexts>>

SimplifyProduct ==
    /\ pc = "normalized"
    /\ result' = simplify(canon)
    /\ pc' = "simplified"
    /\ UNCHANGED <<line, ast, canon, again, vars, out, nlines, operands, joiner, contexts>>

NextMultiply == AddFactor \/ NormalizeProduct \/ SimplifyProduct

SpecMultiply == InitTrees /\ [][NextMultiply]_vars_all

(***************************************************************************)
(* A rational literal through tokenize and parse, Display, and tokenize,   *)
(* parse and evaluate again.                                               *)
(***************************************************************************)
MaxLiteral == 7

LiteralChars == {"0", "5", ".", "_"}

\* tokenizer::tokenize then parser::parse, as input() chains them.
read(src) ==
    LET tokens == tokenize(src)
    IN  IF tokens.ok THEN parse(tokens.value) ELSE tokens

TypeLiteralChar ==
    /\ pc = "typing"
    /\ Len(line) < MaxLiteral
    /\ \E c \in LiteralChars : line' = Append(line, c)
    /\ UNCHANGED <<pc, ast, canon, result, again, vars, out, nlines, operands, joiner, contexts>>

ReadLiteral ==
    /\ pc = "typing"
    /\ ast' = read(line)
    /\ pc' = IF ast'.ok THEN "parsed" ELSE "rejected"
    /\ UNCHANGED <<line, canon, result, again, vars, out, nlines, operands, joiner, contexts>>

\* format!("{}", expression)
Show ==
    /\ pc = "parsed"
    /\ out' = [kind |-> "text", text |-> display(ast.expr, FALSE)]
    /\ pc' = "shown"
    /\ UNCHANGED <<line, ast, canon, result, again, vars, nlines, operands, joiner, contexts>>

Reread ==
    /\ pc = "shown"
    /\ LET expression == read(out.text)
       IN  again' = IF expression.ok THEN evaluate(expression.expr)
                    ELSE [kind |-> "Error", msg |-> expression.error]
    /\ pc' = "reread"
    /\ UNCHANGED <<line, ast, canon, result, vars, out, nlines, operands, joiner, contexts>>

NextLiteral == TypeLiteralChar \/ ReadLiteral \/ Show \/ Reread

SpecLiteral == InitTokens /\ [][NextLiteral]_vars_all

(***************************************************************************)
(* Properties of the pipeline (SpecEvaluate) and of the parser (SpecParse).*)
(***************************************************************************)

\* C1: idempotence of the pipeline: evaluating the result of evaluate again
\* gives a structurally equal tree.
C1_Idempotence == pc = "reevaluated" => again = result

\* C2: like-term merge through the whole pipeline: the line `c1 x + c2 x`
\* evaluates to the same tree as the line `c x` with c = c1 + c2.
C2_LikeTermMerge ==
    \A c1, c2 \in {one, two, half} :
        (pc = "simplified"
         /\ line = <<Token_Number(c1), Token_Name(<<"x">>), Token("Add"),
                     Token_Number(c2), Token_Name(<<"x">>)>>)
        => result = evaluate(parse(<<Token_Number(ratio_add(c1, c2)),
                                     Token_Name(<<"x">>)>>).expr)

NumberCount(items) == Cardinality({i \in 1..Len(items) : IsNumber(items[i])})

NoEqualTerms(items) ==
    \A i, j \in 1..Len(items) :
        (i < j /\ ~IsNumber(items[i])) => items[i] # items[j]

RECURSIVE ChainsMerged(_)
ChainsMerged(e) ==
    IF e.kind # "BinaryExpr" THEN TRUE
    ELSE IF e.op \in {"Add", "Multiply"}
    THEN LET items == chain_items(e, e.op)
         IN  /\ NumberCount(items) <= 1
             /\ NoEqualTerms(items)
             /\ \A i \in 1..Len(items) : ChainsMerged(items[i])
    ELSE ChainsMerged(e.lhs) /\ ChainsMerged(e.rhs)

\* C7: every Add chain and every Multiply chain of the simplifier's result
\* holds at most one Number and no two structurally equal other elements.
C7_ChainInvariant == pc = "simplified" => ChainsMerged(result)

\* The exact rational power base^n for an integer n (base # 0 when n < 0).
ExactPower(base, n) ==
    IF n >= 0 THEN Ratio_new(pow(base.numer, n), pow(base.denom, n))
    ELSE Ratio_new(pow(base.denom, -n), pow(base.numer, -n))

\* C8: an Exponent whose sides simplify to Numbers folds to the exact
\* rational power when the exponent is an integer (p^n / q^n for a base
\* p/q), and is not folded when it is not; base 1 and -1 are left out.
C8_ExactExponent ==
    (pc = "simplified" /\ IsBinary(canon, "Exponent"))
    => LET a == simplify(canon.lhs)
           b == simplify(canon.rhs)
       IN  (IsNumber(a) /\ IsNumber(b) /\ a.value \notin {one, neg}
            /\ ~(is_zero(a.value) /\ b.value.numer < 0))
           => IF is_integer(b.value)
              THEN result = Number(ExactPower(a.value, b.value.numer))
              ELSE result = BinaryExpr(a, "Exponent", b)

\* C10: parse succeeds only if it consumed every token of the line.
C10_AllTokensConsumed == pc = "parsed" => ast.pos = Len(line) + 1

(***************************************************************************)
(* Properties of the session (SpecSession).                                *)
(***************************************************************************)
RECURSIVE DividesByZero(_)
DividesByZero(e) ==
    /\ e.kind = "BinaryExpr"
    /\ \/ e.op \in {"Divide", "Modulus"} /\ e.rhs = Number(zero)
       \/ DividesByZero(e.lhs)
       \/ DividesByZero(e.rhs)

LineDividesByZero ==
    LET tokens == tokenize(line)
        expression == parse(tokens.value)
    IN  tokens.ok /\ expression.ok /\ DividesByZero(expression.expr)

\* C3: a statement that divides or takes a modulus by the number zero ends
\* with a reported DivisionByZero error: no panic, no result value, and the
\* session goes on to the next line.
C3_DivisionByZeroReported ==
    (pc \in {"printed", "aborted"} /\ LineDividesByZero)
    => (pc = "printed" /\ out.kind = "error" /\ out.msg = "DivisionByZero")

\* C4: with x bound to 5 by an earlier `x := 5`, the statement `x + 1`
\* yields the number 6.
C4_AssignmentRoundTrip ==
    (pc = "printed" /\ line = <<"x", "+", "1">>
     /\ <<"x">> \in DOMAIN vars /\ vars[<<"x">>] = Number(from_integer(5)))
    => (out.kind = "value" /\ out.expr = Number(from_integer(6)))

\* What the line being entered lexes and parses to.
Statement ==
    LET tokens == tokenize(line)
    IN  IF tokens.ok THEN parse(tokens.value) ELSE tokens

\* The store after the step differs from the store before it at most in
\* the binding of name, which is now value.
BindsOnly(name, value) ==
    /\ DOMAIN vars' = DOMAIN vars \cup {name}
    /\ vars'[name] = value
    /\ \A n \in DOMAIN vars \ {name} : vars'[n] = vars[n]

\* C11: effect of processing one line on the store.  `lhs := rhs` with lhs
\* a bare Name binds exactly that name to rhs, overwriting an earlier
\* binding and leaving every other binding as it was; with any other lhs
\* the statement is reported as an error and the store is unchanged; a
\* statement that is not an assignment, and a line that fails to lex or
\* parse, leaves the store unchanged.
C11_AssignmentFrame ==
    [][(pc = "reading" /\ nlines' = nlines + 1) =>
         IF ~Statement.ok
         THEN vars' = vars /\ out'.kind = "error"
         ELSE IF Statement.expr.kind = "Assign"
         THEN IF Statement.expr.target.kind = "Name"
              THEN BindsOnly(Statement.expr.target.name, Statement.expr.source)
              ELSE vars' = vars /\ out'.kind = "error"
         ELSE vars' = vars]_vars_all

\* A second assignment has bound another name and kept the first binding.
C11_Witness ==
    /\ pc = "printed"
    /\ nlines = 2
    /\ out.kind = "silent"
    /\ Statement.ok
    /\ Statement.expr.kind = "Assign"
    /\ Statement.expr.target.kind = "Name"
    /\ vars[Statement.expr.target.name] = Statement.expr.source
    /\ Cardinality(DOMAIN vars) = 2

(***************************************************************************)
(* Properties of normalize (SpecNormalize).                                *)
(***************************************************************************)
RECURSIVE NoSugarOps(_)
NoSugarOps(e) ==
    CASE e.kind = "BinaryExpr" ->
            /\ e.op \notin {"Subtract", "Divide", "Adjacent"}
            /\ NoSugarOps(e.lhs)
            /\ NoSugarOps(e.rhs)
      [] e.kind = "Tuple" -> \A i \in 1..Len(e.elems) : NoSugarOps(e.elems[i])
      [] e.kind = "Assign" -> NoSugarOps(e.target) /\ NoSugarOps(e.source)
      [] OTHER -> TRUE

\* C5: no node anywhere in normalize(e) has operator Subtract, Divide or
\* Adjacent, whatever the variant of e (Tuple and Assign included).
C5_NormalizerPostcondition == pc = "normalized" => NoSugarOps(canon)

\* No Add node with an Add left child and no Multiply node with a Multiply
\* left child, among the BinaryExpr nodes normalize rebuilds (it hands a
\* Tuple or an Assign on as it is).
RECURSIVE RightNested(_)
RightNested(e) ==
    IF e.kind # "BinaryExpr" THEN TRUE
    ELSE /\ e.op \in {"Add", "Multiply"} => ~IsBinary(e.lhs, e.op)
         /\ RightNested(e.lhs)
         /\ RightNested(e.rhs)

ChainOfOperands ==
    /\ joiner \in {"Add", "Multiply"}
    /\ \A i \in 1..Len(operands) : ~IsBinary(operands[i], joiner)

IsLiteral(src) ==
    LET tokens == tokenize(src)
    IN  tokens.ok /\ Len(tokens.value) = 1 /\ tokens.value[1].t = "Number"

\* The decimal expansion of r ends within PRECISION fractional digits.
FitsPrecision(r) == pow(10, PRECISION) % r.denom = 0

ChildLookups ==
    \A i \in 2..Len(contexts) :
        LET child == contexts[i].context
            parent == contexts[i - 1].context
        IN  \A N \in ContextNames :
                IF N = contexts[i].name \/ N \in parent.evaluating
                THEN get(child, N) = None
                ELSE N \in DOMAIN vars => get(child, N) = Some(vars[N])

\* Once the Context returned by evaluate(X) is dropped, get(X) on the
\* parent finds X's binding, unless X is in progress in the parent through
\* an evaluate call further out.
ParentLookups ==
    \A i \in 2..Len(contexts) :
        LET X == contexts[i].name
        IN  (X \in DOMAIN vars /\ \A j \in 2..(i - 1) : contexts[j].name # X)
            => get(contexts[i - 1].context, X) = Some(vars[X])

\* Nested evaluate calls accumulate: no name of the chain of calls is found
\* in the innermost Context, so a chain of references that comes back to
\* one of its names ends there.
ChainNotFound ==
    \A i \in 2..Len(contexts) :
        \A j \in 2..i : get(contexts[i].context, contexts[j].name) = None

\* No step changes a Context that stays live: making, using or dropping a
\* Context leaves the in-progress set of every Context outside it alone.
ParentKept ==
    \A i \in 1..Len(contexts) :
        i <= Len(contexts') => contexts'[i].context = contexts[i].context

\* C12: scoped cycle tracking.  In the Context returned by evaluate(X), get
\* is not-found for X and for every name in progress in the parent and
\* finds the binding of any other bound name; the parent's in-progress set
\* is not changed by making or using the child, so get(X) on the parent
\* finds X's binding again after the child is dropped; nested evaluate
\* calls accumulate names, so a chain X -> Y -> X reaches not-found.
C12_ScopedCycleTracking ==
    /\ [](ChildLookups /\ ParentLookups /\ ChainNotFound)
    /\ [][ParentKept]_vars_all

\* x is bound to y and y to x; inside evaluate(x) and then evaluate(y), the
\* lookup of x was not-found.
C12_Witness ==
    /\ <<"x">> \in DOMAIN vars /\ vars[<<"x">>] = Name(<<"y">>)
    /\ <<"y">> \in DOMAIN vars /\ vars[<<"y">>] = Name(<<"x">>)
    /\ Len(contexts) = 3
    /\ contexts[2].name = <<"x">>
    /\ contexts[3].name = <<"y">>
    /\ out = [kind |-> "get", depth |-> 3, name |-> <<"x">>, found |-> None]

(***************************************************************************)
(* Properties of simplify on products (SpecMultiply).                      *)
(***************************************************************************)
\* The scalar coefficient of a simplified product: its Number factors
\* multiplied together.
RECURSIVE ScalarOf(_)
ScalarOf(factors) ==
    IF factors = <<>> THEN one
    ELSE IF IsNumber(Head(factors))
    THEN ratio_mul(Head(factors).value, ScalarOf(Tail(factors)))
    ELSE ScalarOf(Tail(factors))

\* The (base, exponent) terms of a simplified product: one per factor that
\* is not a Number, a factor without a Number exponent having exponent 1.
TermsOf(factors) ==
    {IF IsBinary(factors[i], "Exponent") /\ IsNumber(factors[i].rhs)
     THEN <<factors[i].lhs, factors[i].rhs.value>>
     ELSE <<factors[i], one>> : i \in {k \in 1..Len(factors) : ~IsNumber(factors[k])}}

\* The products of the same factors in every order, simplified.
Reordered ==
    {simplify(normalize(left_nested("Multiply", [i \in 1..Len(operands) |-> operands[p[i]]]))) :
        p \in Permutations(1..Len(operands))}

\* C13: the simplified products of two Multiply chains whose factor lists
\* are permutations of each other have the same scalar coefficient and the
\* same set of (base, exponent) terms; no factor is dropped because a
\* Number equal to its base comes later in the chain.
C13_FactorOrderIndependence ==
    pc = "simplified" =>
        \A other \in Reordered :
            /\ ScalarOf(chain_items(other, "Multiply")) = ScalarOf(chain_items(result, "Multiply"))
            /\ TermsOf(chain_items(other, "Multiply")) = TermsOf(chain_items(result, "Multiply"))

====
